---- MODULE Spec2Model ----
(***************************************************************************)
(* The block forwarder of the tBTC relay (relay/pkg/block/forwarder.go):  *)
(* a pulling loop that finds the common ancestor of the host chain and    *)
(* the Bitcoin chain and then walks Bitcoin height by height, a bounded   *)
(* headers queue, and a pushing loop that submits batches of headers to   *)
(* the host chain.                                                        *)
(***************************************************************************)
EXTENDS Integers, Sequences, FiniteSets, TLC

\* ------------------------------------------------------------------ bounds

\* Highest block height of the modelled Bitcoin block tree.
MaxHeight == 3

\* Capacity of the headers queue (50 in the source, scaled down).
headersQueueSize == 2

\* Maximum size of a batch of headers (5 in the source, scaled down).
headersBatchSize == 2

\* Number of values external code sends on the quit channel.
MaxQuitSignals == 1

\* Number of reorganisations of the Bitcoin chain that are followed.
MaxReorgs == 1

\* ------------------------------------------------------- Bitcoin block tree

\* Digests are small integers. 0 is the all-zero digest of a zeroed header.
\* The tree has a main branch A with one block per height 0..MaxHeight and a
\* side branch B that forks off the genesis block and has one block per
\* height 1..MaxHeight.
ZeroDigest == 0

ABlock(h) == h + 1

BBlock(h) == MaxHeight + 1 + h

ABlocks == {ABlock(h) : h \in 0..MaxHeight}

BBlocks == {BBlock(h) : h \in 1..MaxHeight}

Blocks == ABlocks \cup BBlocks

HeightOf(d) == IF d \in ABlocks THEN d - 1 ELSE d - MaxHeight - 1

ParentOf(d) ==
    IF d = ABlock(0) THEN ZeroDigest
    ELSE IF d \in ABlocks THEN d - 1
    ELSE IF d = BBlock(1) THEN ABlock(0)
    ELSE d - 1

\* btc.Header: Hash, Height, PrevHash, MerkleRoot, Raw.
Header(d) ==
    [Hash |-> d, Height |-> HeightOf(d), PrevHash |-> ParentOf(d),
     MerkleRoot |-> d, Raw |-> <<ParentOf(d), d>>]

\* &btc.Header{}: every field zero, Raw nil.
ZeroHeader ==
    [Hash |-> ZeroDigest, Height |-> 0, PrevHash |-> ZeroDigest,
     MerkleRoot |-> ZeroDigest, Raw |-> <<>>]

\* The block of height h on the chain that ends in block t.
RECURSIVE ChainAt(_, _)
ChainAt(t, h) ==
    IF HeightOf(t) = h THEN t ELSE ChainAt(ParentOf(t), h)

\* Whether block a is block d or an ancestor of d.
IsAncestor(a, d) ==
    /\ HeightOf(a) <= HeightOf(d)
    /\ ChainAt(d, HeightOf(a)) = a

\* ----------------------------------------------------------------- state

VARIABLES
    tip,            \* Bitcoin node: the tip of its canonical chain
    hostBest,       \* host chain: its best known digest
    hostChain,      \* host chain: the digests of the headers it has accepted
    ctxDone,        \* whether ctx has been cancelled
    quit,           \* number of values buffered in f.quit (capacity 1)
    errChan,        \* f.errChan (capacity 1): the buffered errors
    headersQueue,   \* f.headersQueue: the buffered headers
    pullerPc,       \* pullingLoop: the statement it is at
    digest,         \* findBestBlock: argument of the next GetHeaderByDigest
    bestHeader,     \* findBestBlock: bestHeader
    latestHeight,   \* pullingLoop: latestHeight
    lastAdded,      \* pullingLoop: lastAdded
    newHeader,      \* pullingLoop: newHeader while the send is blocked
    pusherPc,       \* pushingLoop: the statement it is at
    headers,        \* pullHeadersFromQueue: the headers collected so far
    ancestor,       \* history: the header findBestBlock returned
    firstCandidate, \* history: the header first resolved from the host digest
    iterations,     \* history: executions of the body of findBestBlock's loop
    viewChanged,    \* history: Bitcoin changed while findBestBlock was running
    reorgs,         \* history: number of reorganisations of Bitcoin so far
    ancestorEpoch,  \* history: reorgs when the ancestor was compared
    enqueued,       \* history: every header sent to the queue, in order
    enqueuedEpoch,  \* history: reorgs when each enqueued header was fetched
    enqueuedLate,   \* history: headers enqueued after ctx was cancelled
    submitted,      \* history: every batch passed to the host chain, in order
    hostBestAt,     \* history: the host's best digest at each submission
    fetchEpoch,     \* history: reorgs when newHeader was fetched
    raised,         \* the error each loop has raised ("" for none)
    quitsSent,      \* history: number of values sent on f.quit
    suppressed      \* history: a fetched header equal to lastAdded was skipped

vars ==
    <<tip, hostBest, hostChain,
      ctxDone, quit, errChan, headersQueue, pullerPc, digest,
      bestHeader, latestHeight, lastAdded, newHeader, pusherPc, headers,
      ancestor, firstCandidate, iterations, viewChanged, reorgs,
      ancestorEpoch, enqueued, enqueuedEpoch, enqueuedLate, submitted,
      hostBestAt, fetchEpoch, raised, quitsSent, suppressed>>

chainVars == <<tip, reorgs, quitsSent, suppressed>>

findVars ==
    <<digest, bestHeader, ancestor, firstCandidate, iterations,
      ancestorEpoch>>

walkVars == <<latestHeight, lastAdded, newHeader, fetchEpoch>>

enqueueVars == <<headersQueue, enqueued, enqueuedEpoch, enqueuedLate>>

pusherVars ==
    <<pusherPc, headers, submitted, hostBestAt, hostBest, hostChain>>

Loops == {"puller", "pusher"}

\* --------------------------------------------------------------- adapters

\* btc.Handle.GetHeaderByHeight: the canonical header of the given height.
GetHeaderByHeight(height) ==
    IF height \in 0..HeightOf(tip)
    THEN [err |-> FALSE, header |-> Header(ChainAt(tip, height))]
    ELSE [err |-> TRUE, header |-> ZeroHeader]

\* btc.Handle.GetHeaderByDigest: the header of the given hash, canonical or
\* not; an error when the node does not know the hash.
GetHeaderByDigest(d) ==
    IF d \in Blocks
    THEN [err |-> FALSE, header |-> Header(d)]
    ELSE [err |-> TRUE, header |-> ZeroHeader]

\* btc.Handle.GetBlockCount: the height of the tip of the longest chain.
GetBlockCount == HeightOf(tip)

\* chain.Handle.GetBestKnownDigest.
GetBestKnownDigest == hostBest

\* ---------------------------------------------------------------- helpers

\* Mutant of headersEqual: the hashes are left out of the comparison.
headersEqualNoHash(first, second) ==
    /\ first.Height = second.Height
    /\ first.PrevHash = second.PrevHash

\* Mutant of headersEqual: only the heights are compared.
headersEqualHeight(first, second) == first.Height = second.Height

headersEqual(first, second) ==
    /\ first.Hash = second.Hash
    /\ first.Height = second.Height
    /\ first.PrevHash = second.PrevHash
    /\ first.MerkleRoot = second.MerkleRoot
    /\ first.Raw = second.Raw

\* Mutant of copyHeaders: the fields are copied and Raw is left empty.
copyHeadersNoRaw(src) ==
    [Hash |-> src.Hash, Height |-> src.Height, PrevHash |-> src.PrevHash,
     MerkleRoot |-> src.MerkleRoot, Raw |-> <<>>]

\* copyHeaders(dest, src): the value of *dest afterwards.
copyHeaders(src) ==
    [Hash |-> src.Hash, Height |-> src.Height, PrevHash |-> src.PrevHash,
     MerkleRoot |-> src.MerkleRoot,
     Raw |-> [i \in 1..Len(src.Raw) |-> src.Raw[i]]]

\* Mutant of StepBack: the candidate's own hash is resolved again.
StepBackSame(candidate) == candidate.Hash

\* findBestBlock, line 102: the digest the loop body resolves next.
StepBack(candidate) == candidate.PrevHash

\* Mutant of FirstHeight: the walk starts at the ancestor's own height.
FirstHeightSame(latestHeader) == latestHeader.Height

\* Mutant of FirstHeight: the walk starts two above the ancestor.
FirstHeightSkip(latestHeader) == latestHeader.Height + 2

\* pullingLoop, line 131: the first height to fetch.
FirstHeight(latestHeader) == latestHeader.Height + 1

\* Mutant of NextHeight: the cursor advances by two.
NextHeightSkip(height) == height + 2

\* pullingLoop, line 163: latestHeight++.
NextHeight(height) == height + 1

\* Mutant of Send: the header is put at the front of the queue.
SendFirst(queue, header) == <<header>> \o queue

\* pullingLoop, line 161: the queue after f.headersQueue <- newHeader.
Send(queue, header) == Append(queue, header)

\* Mutant of HasRoom: the channel takes one header more than its capacity.
HasRoomForOneMore(queue) == Len(queue) <= headersQueueSize

\* Whether a send on f.headersQueue, made with capacity headersQueueSize
\* (line 64), completes at once.
HasRoom(queue) == Len(queue) < headersQueueSize

\* Mutant of ShouldFetch: a height one above the block count is fetched.
ShouldFetchAhead(height, chainHeight) == height <= chainHeight + 1

\* pullingLoop, line 148: whether the header of the height is fetched now.
ShouldFetch(height, chainHeight) == height <= chainHeight

\* `f.errChan <- e; return` of the given loop: the send completes when the
\* channel has room and blocks the loop otherwise.
ReportError(loop, e) ==
    /\ raised' = [raised EXCEPT ![loop] = e]
    /\ IF Len(errChan) < 1
       THEN errChan' = Append(errChan, e)
       ELSE errChan' = errChan

\* Mutant of AfterReport: the loop goes round again after reporting.
AfterReportRetry == IF Len(errChan) < 1 THEN "select" ELSE "errSend"

\* Mutant of AfterReport: the puller fetches again after reporting.
AfterReportRefetch == IF Len(errChan) < 1 THEN "fetch" ELSE "errSend"

\* The statement after `f.errChan <- e`: the return, once the send is done.
AfterReport == IF Len(errChan) < 1 THEN "done" ELSE "errSend"

\* ------------------------------------------------- pullingLoop: discovery

\* findBestBlock, lines 76-79.
FindBestBlock ==
    /\ pullerPc = "findBestBlock"
    /\ \E fails \in BOOLEAN :
        IF fails
        THEN /\ ReportError("puller", "find best block")
             /\ pullerPc' = AfterReport
             /\ UNCHANGED digest
        ELSE /\ digest' = GetBestKnownDigest
             /\ pullerPc' = "GetHeaderByDigest"
             /\ UNCHANGED <<errChan, raised>>
    /\ UNCHANGED <<chainVars, ctxDone, quit, viewChanged, bestHeader,
                   ancestor, firstCandidate, iterations, ancestorEpoch,
                   walkVars, enqueueVars, pusherVars>>

\* findBestBlock, lines 85-88 and 102-105.
FindGetHeaderByDigest ==
    /\ pullerPc = "GetHeaderByDigest"
    /\ \E fails \in BOOLEAN :
        LET r == GetHeaderByDigest(digest) IN
        IF fails \/ r.err
        THEN /\ ReportError("puller", "find best block")
             /\ pullerPc' = AfterReport
             /\ UNCHANGED <<bestHeader, firstCandidate>>
        ELSE /\ bestHeader' = r.header
             /\ firstCandidate' =
                    IF iterations = 0 THEN r.header ELSE firstCandidate
             /\ pullerPc' = "GetHeaderByHeight"
             /\ UNCHANGED <<errChan, raised>>
    /\ UNCHANGED <<chainVars, ctxDone, quit, viewChanged, digest, ancestor,
                   iterations, ancestorEpoch, walkVars, enqueueVars,
                   pusherVars>>

\* findBestBlock, lines 90-93 and 107-110, the loop test of line 101 and the
\* return of line 113.
FindGetHeaderByHeight ==
    /\ pullerPc = "GetHeaderByHeight"
    /\ \E fails \in BOOLEAN :
        LET r == GetHeaderByHeight(bestHeader.Height) IN
        IF fails \/ r.err
        THEN /\ ReportError("puller", "find best block")
             /\ pullerPc' = AfterReport
             /\ UNCHANGED <<digest, iterations, ancestor, ancestorEpoch>>
        ELSE IF ~headersEqual(bestHeader, r.header)
        THEN /\ digest' = StepBack(bestHeader)
             /\ iterations' = iterations + 1
             /\ pullerPc' = "GetHeaderByDigest"
             /\ UNCHANGED <<errChan, raised, ancestor, ancestorEpoch>>
        ELSE /\ ancestor' = bestHeader
             /\ ancestorEpoch' = reorgs
             /\ pullerPc' = "found"
             /\ UNCHANGED <<errChan, raised, digest, iterations>>
    /\ UNCHANGED <<chainVars, ctxDone, quit, viewChanged, bestHeader,
                   firstCandidate, walkVars, enqueueVars, pusherVars>>

\* pullingLoop, lines 119 and 128-132: findBestBlock has returned a header.
PullerStart ==
    /\ pullerPc = "found"
    /\ latestHeight' = FirstHeight(ancestor)
    /\ lastAdded' = ZeroHeader
    /\ viewChanged' = FALSE
    /\ pullerPc' = "select"
    /\ UNCHANGED <<chainVars, ctxDone, quit, errChan, findVars, newHeader,
                   fetchEpoch, enqueueVars, pusherVars, raised>>

\* ---------------------------------------------- pullingLoop: forward walk

\* The select of lines 135-141: return on ctx or quit, and otherwise take
\* the default branch, whose first statement is the call of GetBlockCount.
PullerSelect ==
    /\ pullerPc = "select"
    /\ \/ /\ ctxDone
          /\ pullerPc' = "done"
          /\ UNCHANGED quit
       \/ /\ quit > 0
          /\ quit' = quit - 1
          /\ pullerPc' = "done"
       \/ /\ ~ctxDone
          /\ quit = 0
          /\ pullerPc' = "GetBlockCount"
          /\ UNCHANGED quit
    /\ UNCHANGED <<chainVars, ctxDone, errChan, raised, viewChanged,
                   findVars, walkVars, enqueueVars, pusherVars>>

\* Lines 142-148: the node answers GetBlockCount, some time after the select
\* took its default branch, and the height wanted is compared with it.
PullerGetBlockCount ==
    /\ pullerPc = "GetBlockCount"
    /\ \E fails \in BOOLEAN :
        IF fails
        THEN /\ ReportError("puller", "get block count")
             /\ pullerPc' = AfterReport
        ELSE /\ pullerPc' =
                    IF ShouldFetch(latestHeight, GetBlockCount)
                    THEN "fetch" ELSE "sleep"
             /\ UNCHANGED <<errChan, raised>>
    /\ UNCHANGED <<chainVars, ctxDone, quit, viewChanged, findVars,
                   walkVars, enqueueVars, pusherVars>>

\* Line 160: where the loop goes with the header fetched, to the send or,
\* when the header equals lastAdded, back to the top.
AfterFetch(header) ==
    IF ~headersEqual(header, lastAdded) THEN "send" ELSE "select"

\* Lines 149-160: fetch the header of latestHeight and compare it with
\* lastAdded.
PullerFetch ==
    /\ pullerPc = "fetch"
    /\ \E fails \in BOOLEAN :
        LET r == GetHeaderByHeight(latestHeight) IN
        IF fails \/ r.err
        THEN /\ ReportError("puller", "get header by height")
             /\ pullerPc' = AfterReport
             /\ UNCHANGED <<newHeader, fetchEpoch, suppressed>>
        ELSE /\ newHeader' = r.header
             /\ fetchEpoch' = reorgs
             /\ pullerPc' = AfterFetch(r.header)
             /\ suppressed' = (suppressed \/ AfterFetch(r.header) = "select")
             /\ UNCHANGED <<errChan, raised>>
    /\ UNCHANGED <<tip, reorgs, quitsSent, ctxDone, quit,
                   viewChanged, findVars, latestHeight, lastAdded,
                   enqueueVars, pusherVars>>

\* Lines 149-160 with a Bitcoin node that serves once more the height it
\* served to the fetch before: the answer is the canonical header one below
\* the height asked for.
PullerFetchStale ==
    /\ pullerPc = "fetch"
    /\ enqueued # <<>>
    /\ LET r == GetHeaderByHeight(latestHeight - 1) IN
        /\ ~r.err
        /\ newHeader' = r.header
        /\ fetchEpoch' = reorgs
        /\ pullerPc' = AfterFetch(r.header)
        /\ suppressed' = (suppressed \/ AfterFetch(r.header) = "select")
    /\ UNCHANGED <<tip, reorgs, quitsSent, ctxDone, quit,
                   errChan, raised, viewChanged, findVars, latestHeight,
                   lastAdded, enqueueVars, pusherVars>>

\* Lines 161-163: the send to the queue, which waits for room, then the copy
\* into lastAdded and the increment.
PullerSend ==
    /\ pullerPc = "send"
    /\ HasRoom(headersQueue)
    /\ headersQueue' = Send(headersQueue, newHeader)
    /\ enqueued' = Append(enqueued, newHeader)
    /\ enqueuedEpoch' = Append(enqueuedEpoch, fetchEpoch)
    /\ enqueuedLate' = enqueuedLate + (IF ctxDone THEN 1 ELSE 0)
    /\ lastAdded' = copyHeaders(newHeader)
    /\ latestHeight' = NextHeight(latestHeight)
    /\ pullerPc' = "select"
    /\ UNCHANGED <<chainVars, ctxDone, quit, errChan, viewChanged, findVars,
                   newHeader, fetchEpoch, pusherVars, raised>>

\* Lines 167-171: sleep at the tip until the timer, ctx or quit fires.
PullerSleep ==
    /\ pullerPc = "sleep"
    /\ \/ UNCHANGED quit
       \/ /\ quit > 0
          /\ quit' = quit - 1
    /\ pullerPc' = "select"
    /\ UNCHANGED <<chainVars, ctxDone, errChan, viewChanged, findVars,
                   walkVars, enqueueVars, pusherVars, raised>>

\* The send of lines 121, 144 and 151 completing once the channel has room.
PullerErrSend ==
    /\ pullerPc = "errSend"
    /\ Len(errChan) < 1
    /\ errChan' = Append(errChan, raised["puller"])
    /\ pullerPc' = "done"
    /\ UNCHANGED <<chainVars, ctxDone, quit, viewChanged, findVars, walkVars,
                   enqueueVars, pusherVars, raised>>

\* ------------------------------------------------------------ pushingLoop

\* pullHeadersFromQueue, the receive from the queue: the queue afterwards.
Receive(queue) == Tail(queue)

\* pullHeadersFromQueue: the batch after one more header was received.
Collect(batch, header) == Append(batch, header)

\* Mutant of AfterPull: the batch returned is never pushed.
AfterPullSkip(batch) == "select"

\* Mutant of AfterPull: the batch returned is pushed even when it is empty.
AfterPullPush(batch) == "push"

\* pushingLoop, lines 190-192: where the loop goes with the batch returned.
AfterPull(batch) == IF Len(batch) = 0 THEN "select" ELSE "push"

\* The select of lines 181-189.
PusherSelect ==
    /\ pusherPc = "select"
    /\ \/ /\ ctxDone
          /\ pusherPc' = "done"
          /\ UNCHANGED <<quit, headers>>
       \/ /\ quit > 0
          /\ quit' = quit - 1
          /\ pusherPc' = "done"
          /\ UNCHANGED headers
       \/ /\ ~ctxDone
          /\ quit = 0
          /\ headers' = <<>>
          /\ pusherPc' = "pull"
          /\ UNCHANGED quit
    /\ UNCHANGED <<chainVars, hostBest, hostChain, ctxDone, errChan, pullerPc,
                   viewChanged, findVars, walkVars, enqueueVars, submitted,
                   hostBestAt, raised>>

\* pullHeadersFromQueue (line 189): one header received from the queue; the
\* batch is returned when it is full.
PullHeadersReceive ==
    /\ pusherPc = "pull"
    /\ Len(headers) < headersBatchSize
    /\ headersQueue # <<>>
    /\ headers' = Collect(headers, Head(headersQueue))
    /\ headersQueue' = Receive(headersQueue)
    /\ pusherPc' = IF Len(headers') < headersBatchSize THEN "pull" ELSE "push"
    /\ UNCHANGED <<tip, reorgs, quitsSent, suppressed, hostBest, hostChain,
                   ctxDone,
                   quit, errChan, pullerPc, viewChanged, findVars, walkVars,
                   enqueued, enqueuedEpoch, enqueuedLate, submitted,
                   hostBestAt, raised>>

\* pullHeadersFromQueue: headerTimeout expires after the first header and the
\* partial batch is returned.
PullHeadersTimeout ==
    /\ pusherPc = "pull"
    /\ Len(headers) > 0
    /\ pusherPc' = AfterPull(headers)
    /\ UNCHANGED <<chainVars, hostBest, hostChain,
                   ctxDone, quit, errChan, pullerPc,
                   viewChanged, findVars, walkVars, enqueueVars, headers,
                   submitted, hostBestAt, raised>>

\* pullHeadersFromQueue: ctx is cancelled and what was collected is returned.
PullHeadersCancelled ==
    /\ pusherPc = "pull"
    /\ ctxDone
    /\ pusherPc' = AfterPull(headers)
    /\ UNCHANGED <<chainVars, hostBest, hostChain,
                   ctxDone, quit, errChan, pullerPc,
                   viewChanged, findVars, walkVars, enqueueVars, headers,
                   submitted, hostBestAt, raised>>

\* Whether every header of the batch after the first is the PrevHash-child
\* of the header before it.
IsLinked(batch) ==
    \A i \in 1..(Len(batch) - 1) : batch[i + 1].PrevHash = batch[i].Hash

\* HostChain.AddHeaders: whether the contract's continuity check passes. The
\* batch must extend a header the host chain has accepted and be linked
\* within itself; an orphan or non-contiguous batch is rejected.
IsContiguous(chain, batch) ==
    /\ batch[1].PrevHash \in chain
    /\ IsLinked(batch)

\* HostChain.AddHeaders: the outcomes of the call. A contiguous batch is
\* accepted unless the transaction fails for another reason; any other
\* batch is rejected.
AddHeadersFails(chain, batch) ==
    IF IsContiguous(chain, batch) THEN BOOLEAN ELSE {TRUE}

\* HostChain.AddHeaders: the digests the host chain has accepted once it has
\* accepted the batch.
AddHeaders(chain, batch) ==
    chain \cup {batch[i].Hash : i \in 1..Len(batch)}

\* The host chain's best known digest once it has accepted the batch: the
\* last header of the batch when that is higher than the best it had.
BestKnownAfter(best, batch) ==
    IF batch[Len(batch)].Height > HeightOf(best)
    THEN batch[Len(batch)].Hash
    ELSE best

\* pushHeadersToHostChain (lines 199-202): the batch is passed to the host
\* chain, which accepts it or returns an error.
PushHeaders ==
    /\ pusherPc = "push"
    /\ submitted' = Append(submitted, headers)
    /\ hostBestAt' = Append(hostBestAt, hostBest)
    /\ \E fails \in AddHeadersFails(hostChain, headers) :
        IF fails
        THEN /\ ReportError("pusher", "push headers")
             /\ pusherPc' = AfterReport
             /\ UNCHANGED <<hostBest, hostChain>>
        ELSE /\ hostChain' = AddHeaders(hostChain, headers)
             /\ hostBest' = BestKnownAfter(hostBest, headers)
             /\ pusherPc' = "sleep"
             /\ UNCHANGED <<errChan, raised>>
    /\ headers' = <<>>
    /\ UNCHANGED <<chainVars, ctxDone, quit, pullerPc, viewChanged, findVars,
                   walkVars, enqueueVars>>

\* Lines 210-214: rest after a push until the timer, ctx or quit fires.
PusherSleep ==
    /\ pusherPc = "sleep"
    /\ \/ UNCHANGED quit
       \/ /\ quit > 0
          /\ quit' = quit - 1
    /\ pusherPc' = "select"
    /\ UNCHANGED <<chainVars, hostBest, hostChain, ctxDone, errChan, pullerPc,
                   viewChanged, findVars, walkVars, enqueueVars, headers,
                   submitted, hostBestAt, raised>>

\* The send of line 200 completing once the channel has room.
PusherErrSend ==
    /\ pusherPc = "errSend"
    /\ Len(errChan) < 1
    /\ errChan' = Append(errChan, raised["pusher"])
    /\ pusherPc' = "done"
    /\ UNCHANGED <<chainVars, hostBest, hostChain,
                   ctxDone, quit, pullerPc, viewChanged,
                   findVars, walkVars, enqueueVars, headers, submitted,
                   hostBestAt, raised>>

\* ------------------------------------------------------------ environment

\* The caller of RunForwarder cancels ctx.
Cancel ==
    /\ ~ctxDone
    /\ ctxDone' = TRUE
    /\ UNCHANGED <<chainVars, hostBest, hostChain, quit, errChan, headersQueue,
                   pullerPc, viewChanged, findVars, walkVars, enqueued,
                   enqueuedEpoch, enqueuedLate, pusherPc, headers, submitted,
                   hostBestAt, raised>>

\* External code sends a value on QuitChan() (capacity 1, line 66).
QuitSignal ==
    /\ quitsSent < MaxQuitSignals
    /\ quit < 1
    /\ quit' = quit + 1
    /\ quitsSent' = quitsSent + 1
    /\ UNCHANGED <<tip, reorgs, suppressed, hostBest, hostChain, ctxDone,
                   errChan, headersQueue, pullerPc, viewChanged, findVars,
                   walkVars, enqueued, enqueuedEpoch, enqueuedLate, pusherPc,
                   headers, submitted, hostBestAt, raised>>

\* The supervisor receives an error from ErrChan() and cancels ctx.
SupervisorReceive ==
    /\ errChan # <<>>
    /\ errChan' = Tail(errChan)
    /\ ctxDone' = TRUE
    /\ UNCHANGED <<chainVars, hostBest, hostChain,
                   quit, headersQueue, pullerPc,
                   viewChanged, findVars, walkVars, enqueued, enqueuedEpoch,
                   enqueuedLate, pusherPc, headers, submitted, hostBestAt,
                   raised>>

\* Whether findBestBlock is running or has just returned.
InDiscovery ==
    pullerPc \in {"GetHeaderByDigest", "GetHeaderByHeight", "found"}

\* Bitcoin: a block is mined on top of the canonical tip.
ChainExtend ==
    /\ \E b \in Blocks :
        /\ ParentOf(b) = tip
        /\ tip' = b
    /\ viewChanged' = (viewChanged \/ InDiscovery)
    /\ UNCHANGED <<reorgs, quitsSent, suppressed, hostBest, hostChain,
                   ctxDone, quit, errChan, headersQueue, pullerPc, findVars,
                   walkVars, enqueued, enqueuedEpoch, enqueuedLate, pusherPc,
                   headers, submitted, hostBestAt, raised>>

\* Bitcoin: a longer branch that does not contain the tip becomes canonical.
ChainReorg ==
    /\ reorgs < MaxReorgs
    /\ \E b \in Blocks :
        /\ HeightOf(b) > HeightOf(tip)
        /\ ~IsAncestor(tip, b)
        /\ tip' = b
    /\ reorgs' = reorgs + 1
    /\ viewChanged' = (viewChanged \/ InDiscovery)
    /\ UNCHANGED <<quitsSent, suppressed, hostBest, hostChain, ctxDone,
                   quit, errChan, headersQueue, pullerPc, findVars, walkVars,
                   enqueued, enqueuedEpoch, enqueuedLate, pusherPc, headers,
                   submitted, hostBestAt, raised>>

\* ---------------------------------------------------------- specification

\* A digest the Bitcoin node does not know.
UnknownDigest == BBlock(MaxHeight) + 1

\* The digests the host chain has accepted when its best known digest is d:
\* the block d and its ancestors.
HostChainOf(d) ==
    IF d \in Blocks THEN {b \in Blocks : IsAncestor(b, d)} ELSE {d}

\* RunForwarder, lines 61-72: empty channels, both loops started. The
\* Bitcoin tip and the host's best digest are whatever they are at startup.
Init ==
    /\ tip \in Blocks
    /\ hostBest \in Blocks \cup {UnknownDigest}
    /\ hostChain = HostChainOf(hostBest)
    /\ ctxDone = FALSE
    /\ quit = 0
    /\ errChan = <<>>
    /\ headersQueue = <<>>
    /\ pullerPc = "findBestBlock"
    /\ digest = ZeroDigest
    /\ bestHeader = ZeroHeader
    /\ latestHeight = 0
    /\ lastAdded = ZeroHeader
    /\ newHeader = ZeroHeader
    /\ pusherPc = "select"
    /\ headers = <<>>
    /\ ancestor = ZeroHeader
    /\ firstCandidate = ZeroHeader
    /\ iterations = 0
    /\ viewChanged = FALSE
    /\ reorgs = 0
    /\ ancestorEpoch = 0
    /\ enqueued = <<>>
    /\ enqueuedEpoch = <<>>
    /\ enqueuedLate = 0
    /\ submitted = <<>>
    /\ hostBestAt = <<>>
    /\ fetchEpoch = 0
    /\ raised = [l \in Loops |-> ""]
    /\ quitsSent = 0
    /\ suppressed = FALSE

Puller ==
    \/ FindBestBlock
    \/ FindGetHeaderByDigest
    \/ FindGetHeaderByHeight
    \/ PullerStart
    \/ PullerSelect
    \/ PullerGetBlockCount
    \/ PullerFetch
    \/ PullerSend
    \/ PullerSleep
    \/ PullerErrSend

Pusher ==
    \/ PusherSelect
    \/ PullHeadersReceive
    \/ PullHeadersTimeout
    \/ PullHeadersCancelled
    \/ PushHeaders
    \/ PusherSleep
    \/ PusherErrSend

Environment ==
    \/ Cancel
    \/ SupervisorReceive
    \/ ChainExtend
    \/ ChainReorg

\* The forwarder with its lifecycle managed through ctx, as the comment of
\* RunForwarder describes it: nothing is sent on the quit channel.
Next == Puller \/ Pusher \/ Environment

Spec == Init /\ [][Next]_vars

\* Both loops are goroutines the Go scheduler keeps running: a loop that can
\* take a step eventually takes one, and every timer eventually fires. The
\* supervisor keeps receiving from the error channel. The rest of the
\* environment owes nothing.
Fairness ==
    /\ WF_vars(Puller)
    /\ WF_vars(Pusher)
    /\ WF_vars(SupervisorReceive)

FairSpec == Spec /\ Fairness

\* The forwarder with external code that also uses the quit channel: the
\* caller may cancel ctx and may send on QuitChan(), in any order.
QuitNext == Next \/ QuitSignal

QuitSpec == Init /\ [][QuitNext]_vars

FairQuitSpec == QuitSpec /\ Fairness

\* The forwarder with a Bitcoin node that may serve a height it has served
\* before in place of the height asked for.
StaleNext == Next \/ PullerFetchStale

StaleSpec == Init /\ [][StaleNext]_vars

\* ------------------------------------------------------------ properties

\* All batches concatenated in submission order.
RECURSIVE Flatten(_)
Flatten(batches) ==
    IF batches = <<>> THEN <<>>
    ELSE Head(batches) \o Flatten(Tail(batches))

IsPrefix(s, t) == Len(s) <= Len(t) /\ SubSeq(t, 1, Len(s)) = s

\* Whether header child names header parent as its previous block.
IsChild(child, parent) == child.PrevHash = parent.Hash

\* C1: the headers submitted to the host chain, all batches concatenated in
\* submission order, are a prefix of the headers the puller has enqueued;
\* the enqueued headers not yet submitted are exactly the batch being
\* assembled followed by the queue, so none is dropped, duplicated or
\* reordered on the way.
C1_SubmittedIsPrefixOfEnqueued ==
    /\ IsPrefix(Flatten(submitted), enqueued)
    /\ enqueued = Flatten(submitted) \o headers \o headersQueue

\* C1 witness: more headers than the queue holds were enqueued and every one
\* of them has been submitted, in more than one batch.
C1_Witness ==
    /\ Len(enqueued) > headersQueueSize
    /\ Len(submitted) > 1
    /\ Flatten(submitted) = enqueued

\* C2 as claimed: every enqueued header is the PrevHash-child of the header
\* enqueued before it, in every execution.
C2_ConsecutiveAreLinked ==
    \A i \in 1..(Len(enqueued) - 1) : IsChild(enqueued[i + 1], enqueued[i])

\* C2 amended: an enqueued header is the PrevHash-child of the header
\* enqueued before it whenever Bitcoin did not reorganise between the two
\* GetHeaderByHeight calls that fetched them.
C2_LinkedWithoutReorg ==
    \A i \in 1..(Len(enqueued) - 1) :
        enqueuedEpoch[i + 1] = enqueuedEpoch[i]
            => IsChild(enqueued[i + 1], enqueued[i])

\* C2 witness: Bitcoin has reorganised, and two headers fetched after it with
\* no reorganisation between them are enqueued one after the other.
C2_Witness ==
    /\ Len(enqueued) > 1
    /\ enqueuedEpoch[1] = enqueuedEpoch[2]
    /\ enqueuedEpoch[1] > 0

\* C3: the first enqueued header is one above the ancestor findBestBlock
\* returned, every later one is one above the header enqueued before it, and
\* a header about to be enqueued is one above lastAdded.
C3_HeightsAreConsecutive ==
    /\ enqueued # <<>> => enqueued[1].Height = ancestor.Height + 1
    /\ \A i \in 1..(Len(enqueued) - 1) :
           enqueued[i + 1].Height = enqueued[i].Height + 1
    /\ (pullerPc = "send" /\ enqueued # <<>>)
           => newHeader.Height = lastAdded.Height + 1
    /\ (pullerPc = "send" /\ enqueued = <<>>)
           => newHeader.Height = ancestor.Height + 1

\* C3 witness: after a discovery that stepped back, two or more headers have
\* been enqueued, the last of them fetched after a reorganisation.
C3_Witness ==
    /\ iterations > 0
    /\ Len(enqueued) > 1
    /\ enqueuedEpoch[Len(enqueued)] > ancestorEpoch

\* The number of headers in the batches before batch k.
Offset(k) == Len(Flatten(SubSeq(submitted, 1, k - 1)))

\* C4 as claimed: the first header of every submitted batch is the
\* PrevHash-child of the host's best digest at submission time or of the last
\* header of the batch submitted before, and every other header of the batch
\* is the PrevHash-child of the header before it.
C4_BatchesExtendHost ==
    \A k \in 1..Len(submitted) :
        LET batch == submitted[k] IN
        /\ \/ batch[1].PrevHash = hostBestAt[k]
           \/ /\ k > 1
              /\ IsChild(batch[1], submitted[k - 1][Len(submitted[k - 1])])
        /\ \A j \in 2..Len(batch) : IsChild(batch[j], batch[j - 1])

\* The header submitted before header j of batch k: the one before it in the
\* batch, the last of the batch before, or the ancestor for the very first.
SubmittedBefore(k, j) ==
    IF j > 1 THEN submitted[k][j - 1]
    ELSE IF k > 1 THEN submitted[k - 1][Len(submitted[k - 1])]
    ELSE ancestor

\* The number of reorganisations when the header before header n of the
\* enqueued sequence was fetched (for the first: when the ancestor was found).
EpochBefore(n) == IF n > 1 THEN enqueuedEpoch[n - 1] ELSE ancestorEpoch

\* C4 amended: the first header of the first batch is the PrevHash-child of
\* the common ancestor findBestBlock returned (which is the host's best
\* header only when discovery did not step back), the first header of a
\* later batch is the PrevHash-child of the last header of the batch before,
\* and every other header is the PrevHash-child of the header before it in
\* the batch, each wherever Bitcoin did not reorganise between the fetches
\* of the two headers.
C4_BatchesExtendAncestor ==
    \A k \in 1..Len(submitted) :
        \A j \in 1..Len(submitted[k]) :
            /\ submitted[k][j] = enqueued[Offset(k) + j]
            /\ enqueuedEpoch[Offset(k) + j] = EpochBefore(Offset(k) + j)
                   => IsChild(submitted[k][j], SubmittedBefore(k, j))

\* C4 witness: discovery stepped back, so the ancestor is not the host's best
\* header, and two batches were submitted with no reorganisation since.
C4_Witness ==
    /\ iterations > 0
    /\ Len(submitted) > 1
    /\ Len(submitted[1]) > 1
    /\ \A n \in 1..Len(enqueued) : enqueuedEpoch[n] = ancestorEpoch
    /\ submitted[1][1].PrevHash # hostBestAt[1]

\* Whether block b is on Bitcoin's canonical chain.
IsCanonical(b) == IsAncestor(b, tip)

\* Whether block b is the host's best block or reachable from it by PrevHash.
IsOnHostChain(b) == hostBest \in Blocks /\ IsAncestor(b, hostBest)

\* C5: when findBestBlock returns a header and Bitcoin did not change during
\* the call, the header equals in all five fields the canonical header of
\* its height, it is the host's best header or a PrevHash-ancestor of it, no
\* higher block has both properties, and when the host's best header is not
\* canonical but its parent is, the header returned is that parent. The
\* first height the puller fetches is one above it.
C5_CommonAncestor ==
    /\ (pullerPc = "found" /\ ~viewChanged) =>
          /\ ~GetHeaderByHeight(ancestor.Height).err
          /\ ancestor = GetHeaderByHeight(ancestor.Height).header
          /\ IsOnHostChain(ancestor.Hash)
          /\ \A b \in Blocks :
                 (IsCanonical(b) /\ IsOnHostChain(b))
                     => HeightOf(b) <= ancestor.Height
          /\ (/\ ~IsCanonical(firstCandidate.Hash)
              /\ IsCanonical(firstCandidate.PrevHash))
                 => /\ ancestor.Height = firstCandidate.Height - 1
                    /\ ancestor.Hash = firstCandidate.PrevHash
    /\ (/\ pullerPc \in {"select", "GetBlockCount", "sleep", "fetch", "send"}
        /\ enqueued = <<>>)
          => latestHeight = ancestor.Height + 1

\* C5 witness: the host's best header is not canonical, its parent is, and
\* findBestBlock has returned the parent after one step back, Bitcoin
\* unchanged.
C5_Witness ==
    /\ pullerPc = "found"
    /\ ~viewChanged
    /\ iterations = 1
    /\ firstCandidate.Hash = hostBest
    /\ ~IsCanonical(hostBest)
    /\ ancestor.Hash = firstCandidate.PrevHash

\* C6: the body of findBestBlock's loop has run at most candidate.Height + 1
\* times, candidate being the header first resolved from the host's digest,
\* and each run has lowered the height of the header under comparison by
\* exactly one, so the loop cannot run past the genesis block.
C6_DiscoveryIsBounded ==
    /\ iterations <= firstCandidate.Height + 1
    /\ pullerPc \in {"GetHeaderByHeight", "found"}
          => /\ bestHeader.Height = firstCandidate.Height - iterations
             /\ bestHeader.Height >= 0

\* C6 witness: findBestBlock has stepped back from a header of height two or
\* more down to the genesis block and returned it.
C6_Witness ==
    /\ pullerPc = "found"
    /\ iterations > 1
    /\ iterations = firstCandidate.Height
    /\ ancestor.Height = 0

Returned == pullerPc = "done" /\ pusherPc = "done"

\* C7 as claimed: once ctx is cancelled, both loops eventually return.
C7_CancelledLoopsReturn == ctxDone ~> Returned

\* C8 as claimed: no header is enqueued after ctx was cancelled.
C8_NoEnqueueAfterCancel == enqueuedLate = 0

\* C9 as claimed: no loop is ever left waiting to send on the error channel.
C9_ReporterNeverBlocks == pullerPc # "errSend" /\ pusherPc # "errSend"

\* Whether cancellation, by ctx or by the quit channel, was signalled.
Signalled == ctxDone \/ quitsSent > 0

\* The only-if half of C10, which holds: a loop that has returned was
\* signalled or has raised an error.
ReturnedOnlyOnSignalOrError ==
    /\ pullerPc = "done" => (Signalled \/ raised["puller"] # "")
    /\ pusherPc = "done" => (Signalled \/ raised["pusher"] # "")

\* C10 as claimed: a loop returns if and only if cancellation was signalled
\* or the loop raised an error.
C10_ReturnIffSignalOrError ==
    /\ []ReturnedOnlyOnSignalOrError
    /\ (Signalled \/ raised["puller"] # "") ~> (pullerPc = "done")
    /\ (Signalled \/ raised["pusher"] # "") ~> (pusherPc = "done")

\* C11 as claimed: after external code has sent a value on the quit channel,
\* the pulling loop and the pushing loop both eventually return.
C11_QuitReturnsBothLoops == (quitsSent > 0) ~> Returned

\* Whether the pushing loop has had a submission fail.
PushFailed == raised["pusher"] # ""

\* C12: once pushHeadersToHostChain has returned an error the pusher makes no
\* further submission and receives no further header from the queue, the
\* step in which it returns is the one that puts its error on the error
\* channel, and with a supervisor that keeps receiving it does return.
C12_PushFailureIsFatal ==
    /\ [][PushFailed =>
              /\ submitted' = submitted
              /\ headers' = headers
              /\ IsPrefix(headersQueue, headersQueue')]_vars
    /\ [][(PushFailed' /\ pusherPc # "done" /\ pusherPc' = "done") =>
              errChan' = Append(errChan, raised'["pusher"])]_vars
    /\ PushFailed ~> (pusherPc = "done")

\* C12 witness: the second submission failed, the pusher has returned after
\* its error went onto the error channel, and a header is left in the queue.
C12_Witness ==
    /\ PushFailed
    /\ pusherPc = "done"
    /\ Len(submitted) = 2
    /\ headersQueue # <<>>
    /\ hostBest = submitted[1][Len(submitted[1])].Hash

\* Whether a call made by the pulling loop has failed.
PullFailed == raised["puller"] # ""

\* C13: once a call of the puller has failed, in discovery or in steady
\* state, the puller stands at the send of its error or has returned: it
\* calls nothing again, changes none of its variables and enqueues nothing;
\* the step in which it returns is the one that puts its error on the error
\* channel, and with a supervisor that keeps receiving it does return. A
\* host best digest unknown to the Bitcoin node fails GetHeaderByDigest, so
\* the puller never gets past discovery and nothing is ever enqueued.
C13_PullFailureIsFatal ==
    /\ [](PullFailed => pullerPc \in {"errSend", "done"})
    /\ [][PullFailed => UNCHANGED <<findVars, walkVars, enqueued>>]_vars
    /\ [][(PullFailed' /\ pullerPc # "done" /\ pullerPc' = "done") =>
              errChan' = Append(errChan, raised'["puller"])]_vars
    /\ [](hostBest = UnknownDigest =>
              /\ enqueued = <<>>
              /\ pullerPc \in
                    {"findBestBlock", "GetHeaderByDigest", "errSend", "done"}
              /\ pullerPc = "done" => (PullFailed \/ ctxDone))
    /\ PullFailed ~> (pullerPc = "done")

\* C13 witness: GetHeaderByHeight failed in steady state after a header was
\* enqueued, the pusher had already filled the error channel, and the puller
\* has returned after its own error went onto the channel.
C13_Witness ==
    /\ raised["puller"] = "get header by height"
    /\ PushFailed
    /\ pullerPc = "done"
    /\ enqueued # <<>>
    /\ errChan = <<"get header by height">>

\* Whether the puller is waiting at the send with the queue full.
Blocked == pullerPc = "send" /\ Len(headersQueue) = headersQueueSize

\* C14: the queue never holds more than headersQueueSize headers. While the
\* puller is at the send it still holds the header of latestHeight and
\* lastAdded is still the header enqueued before; with the queue full the
\* only thing that can happen to the queue is a receive by the pusher; and
\* the step that leaves the send enqueues exactly the header held, copies
\* it into lastAdded and moves latestHeight up by one.
C14_QueueIsBounded ==
    /\ [](Len(headersQueue) <= headersQueueSize)
    /\ [](pullerPc = "send" =>
              /\ newHeader.Height = latestHeight
              /\ lastAdded =
                    IF enqueued = <<>> THEN ZeroHeader
                    ELSE enqueued[Len(enqueued)])
    /\ [][Blocked =>
              /\ UNCHANGED <<walkVars, enqueued>>
              /\ \/ (pullerPc' = "send" /\ headersQueue' = headersQueue)
                 \/ (pullerPc' = "send" /\ headersQueue' = Tail(headersQueue))
          ]_vars
    /\ [][(pullerPc = "send" /\ pullerPc' # "send") =>
              /\ enqueued' = Append(enqueued, newHeader)
              /\ headersQueue' = Append(headersQueue, newHeader)
              /\ lastAdded' = newHeader
              /\ latestHeight' = latestHeight + 1]_vars

\* C14 witness: the queue is full of the headers enqueued so far, the puller
\* holds the header of the next height and waits at the send, and the pusher
\* is about to make room.
C14_Witness ==
    /\ Blocked
    /\ Len(enqueued) = headersQueueSize
    /\ headersQueue = enqueued
    /\ newHeader.Height = latestHeight
    /\ lastAdded = enqueued[Len(enqueued)]
    /\ pusherPc = "pull"

\* The headers fetched from Bitcoin and not yet submitted to the host chain:
\* those in the queue, the one the puller holds at the send, and those of
\* the batch the pusher is assembling or about to submit.
InFlight ==
    Len(headersQueue) + (IF pullerPc = "send" THEN 1 ELSE 0) + Len(headers)

\* C15 as claimed: the forwarder never holds more than headersQueueSize
\* headers in flight.
C15_InFlightIsBounded == InFlight <= headersQueueSize

\* Whether header x is an element of the sequence of headers s.
Has(s, x) == \E i \in 1..Len(s) : s[i] = x

\* Whether a call has failed or cancellation was signalled.
Trouble == ctxDone \/ quitsSent > 0 \/ PullFailed \/ PushFailed

\* Whether every header of Bitcoin's canonical chain above the ancestor and
\* up to the block count has been enqueued and submitted to the host chain.
Delivered ==
    /\ pullerPc \in {"select", "GetBlockCount", "fetch", "send", "sleep"}
    /\ \A h \in (ancestor.Height + 1)..GetBlockCount :
           /\ Has(enqueued, GetHeaderByHeight(h).header)
           /\ Has(Flatten(submitted), GetHeaderByHeight(h).header)

\* Whether the heights of the headers of s are strictly ascending.
Ascending(s) ==
    \A i \in 1..Len(s) : \A j \in 1..Len(s) :
        i < j => s[i].Height < s[j].Height

DeliveredAt(h) ==
    \E i \in 1..Len(enqueued) :
        /\ enqueued[i].Height = h
        /\ Has(Flatten(submitted), enqueued[i])
        /\ enqueuedEpoch[i] = reorgs =>
               enqueued[i] = GetHeaderByHeight(h).header

\* Whether every height above the ancestor and up to the block count has
\* its header delivered.
DeliveredByHeight ==
    /\ pullerPc \in {"select", "GetBlockCount", "fetch", "send", "sleep"}
    /\ \A h \in (ancestor.Height + 1)..GetBlockCount : DeliveredAt(h)

C17_BatchSizeIsBounded ==
    /\ [](\A k \in 1..Len(submitted) :
              Len(submitted[k]) \in 1..headersBatchSize)
    /\ [](pusherPc = "push" => Len(headers) \in 1..headersBatchSize)
    /\ [][(pusherPc = "pull" /\ pusherPc' # "pull" /\ headers = <<>>) =>
              /\ pusherPc' = "select"
              /\ UNCHANGED <<submitted, headers, headersQueue>>]_vars
    /\ [][(pusherPc = "pull" /\ pusherPc' # "pull"
               /\ Len(headers) \in 1..(headersBatchSize - 1)) =>
              /\ pusherPc' = "push"
              /\ \/ headers' = headers /\ headersQueue' = headersQueue
                 \/ /\ Len(headers') = headersBatchSize
                    /\ headers' = Append(headers, Head(headersQueue))]_vars
    /\ [][(pusherPc = "push" /\ pusherPc' # "push") =>
              submitted' = Append(submitted, headers)]_vars

\* C17 witness: with ctx not cancelled, a batch of one header was submitted
\* after the timeout although more headers followed, and a full batch was
\* submitted after it.
C17_Witness ==
    /\ ~ctxDone
    /\ Len(submitted) = 2
    /\ Len(submitted[1]) = 1
    /\ Len(submitted[2]) = headersBatchSize
    /\ hostBest = submitted[2][headersBatchSize].Hash

\* Whether the puller is in the loop of its forward walk.
InWalk ==
    pullerPc \in {"select", "GetBlockCount", "fetch", "send", "sleep"}

\* C18: the puller goes to its sleep exactly when the height it wants is
\* above the block count just returned, and then it fetches and enqueues
\* nothing: going to sleep and sleeping leave latestHeight, lastAdded and the
\* queue alone, and the sleep ends, on the timer, ctx or quit, at the select
\* at the top of the loop. As long as the block count is the height of the
\* ancestor, which is the host's best header when that is at the tip, no
\* header is fetched or enqueued and lastAdded is the zero header.
C18_NothingToFetchSleeps ==
    /\ [][(pullerPc = "GetBlockCount" /\ pullerPc' \in {"fetch", "sleep"}) =>
              /\ (pullerPc' = "sleep") <=> (latestHeight > GetBlockCount)
              /\ UNCHANGED <<walkVars, enqueued>>]_vars
    /\ [][pullerPc = "sleep" =>
              /\ pullerPc' \in {"sleep", "select"}
              /\ UNCHANGED <<walkVars, enqueued>>]_vars
    /\ []((InWalk /\ GetBlockCount <= ancestor.Height) =>
              /\ pullerPc \in {"select", "GetBlockCount", "sleep"}
              /\ latestHeight = ancestor.Height + 1
              /\ enqueued = <<>>
              /\ lastAdded = ZeroHeader)

\* C18 witness: the host's best header is the Bitcoin tip, a value on the
\* quit channel ended one sleep of the puller, and the puller has polled
\* again and sleeps again with nothing enqueued.
C18_Witness ==
    /\ pullerPc = "sleep"
    /\ quitsSent = 1
    /\ quit = 0
    /\ pusherPc = "pull"
    /\ submitted = <<>>
    /\ hostBest = tip
    /\ ancestor.Hash = tip
    /\ enqueued = <<>>
    /\ lastAdded = ZeroHeader

\* C19: throughout the forward walk latestHeight is the ancestor's height
\* plus one plus the number of headers enqueued, so it never decreases and
\* moves by exactly one with each enqueue and not otherwise; lastAdded is
\* equal in all five fields, Raw byte for byte, to the header enqueued last,
\* and the zero header while none has been enqueued.
C19_CursorCountsEnqueues ==
    /\ [](InWalk =>
              /\ latestHeight = ancestor.Height + 1 + Len(enqueued)
              /\ lastAdded =
                    IF enqueued = <<>> THEN ZeroHeader
                    ELSE enqueued[Len(enqueued)]
              /\ headersEqual(lastAdded,
                    IF enqueued = <<>> THEN ZeroHeader
                    ELSE enqueued[Len(enqueued)]))
    /\ [][(InWalk /\ InWalk') =>
              /\ Len(enqueued') - Len(enqueued) \in {0, 1}
              /\ latestHeight' =
                    latestHeight + (Len(enqueued') - Len(enqueued))]_vars
    /\ [][(pullerPc = "send" /\ pullerPc' # "send") =>
              lastAdded' = newHeader]_vars

\* C19 witness: discovery stepped back to the genesis block, the puller has
\* enqueued the header of every height up to MaxHeight, the last of them
\* after a reorganisation, and now sleeps with latestHeight above the tip.
C19_Witness ==
    /\ pullerPc = "sleep"
    /\ iterations > 0
    /\ reorgs > ancestorEpoch
    /\ Len(enqueued) = MaxHeight
    /\ latestHeight = MaxHeight + 1
    /\ lastAdded = Header(tip)

\* Whether the step is a fetch that returned a header: the puller leaves
\* line 149 for the send or for the top of the loop.
Fetched ==
    /\ pullerPc = "fetch"
    /\ pullerPc' \in {"send", "select"}

\* The header enqueued last, the zero header when there is none.
LastEnqueued ==
    IF enqueued = <<>> THEN ZeroHeader ELSE enqueued[Len(enqueued)]

\* C20: a fetch that returns a header of the height asked for never takes
\* the duplicate branch: the puller goes on to the send, where the header is
\* enqueued and latestHeight advances (C14, C19). The duplicate branch is
\* taken exactly when the header returned is the header enqueued last, which
\* takes a node that serves a height again; the puller is then back at the
\* top of the loop, not asleep, with nothing enqueued and latestHeight and
\* lastAdded as they were.
C20_DuplicateBranch ==
    /\ [][(Fetched /\ newHeader'.Height = latestHeight) =>
              pullerPc' = "send"]_vars
    /\ [][Fetched =>
              ((pullerPc' = "select") <=>
                  (enqueued # <<>> /\ newHeader' = LastEnqueued))]_vars
    /\ [][(Fetched /\ pullerPc' = "select") =>
              /\ newHeader'.Height = latestHeight - 1
              /\ UNCHANGED <<latestHeight, lastAdded, enqueueVars>>]_vars
    /\ [](suppressed => enqueued # <<>>)

\* C20 witness: the node served the height of the header enqueued last once
\* more, the puller skipped it, and it is back at the top of the loop with
\* latestHeight still one above that header; before, after a
\* reorganisation, a re-served height that differed from lastAdded had been
\* enqueued as a second header of its height.
C20_Witness ==
    /\ suppressed
    /\ pullerPc = "select"
    /\ newHeader = lastAdded
    /\ Len(enqueued) > 1
    /\ enqueued[2].Height = enqueued[1].Height
    /\ latestHeight = lastAdded.Height + 1

====
